---- MODULE Spec2Model ----
(***************************************************************************)
(* Model of app.py, the Juice & Smoothie sales dashboard: a Streamlit      *)
(* script that is executed top to bottom on launch and again after every   *)
(* widget interaction.  One script run loads ejb.xlsx, binds four roles to *)
(* columns through sidebar select boxes, coerces the sales and date        *)
(* columns in place, drops incomplete rows and renders three tabs.         *)
(*                                                                         *)
(* Cell values.  A cell of the sheet is a record [k, v, t]:                *)
(*   k = "na"    a missing value (NaN / None / NaT)                        *)
(*   k = "num"   a number v                                                *)
(*   k = "text"  a string that parses neither as a number nor as a date    *)
(*   k = "ts"    a timestamp: calendar day v, time of day t                *)
(* Numbers are exact integers (float rounding is not modelled).  Time is   *)
(* counted in ticks, TicksPerDay of them to a day, standing for the        *)
(* nanoseconds of pandas' datetime64[ns].  The pandas calls are modelled   *)
(* by what pandas 2.x does with these cell kinds.                          *)
(***************************************************************************)
EXTENDS Integers, Sequences, FiniteSets, TLC

VARIABLES
    xlsx,           \* the sheet stored in ejb.xlsx: a sequence of rows
    all_cols,       \* the sheet's header: list(df.columns)
    widgets,        \* the four select boxes' values kept by the session
    df,             \* the data frame of the last script run
    df_clean,       \* df.dropna(subset = [category, sales, date])
    category_sales, \* tab 1: <<category, total>> pairs
    daily_sales,    \* tab 2: <<day, total>> pairs
    rating_counts,  \* tab 3: <<rating, count>> pairs
    trend,          \* tab 2: the trend word of the interpretation
    tabs,           \* what each of the three tabs rendered
    log,            \* the steps the last script run executed, in order
    arg,            \* input of a function applied on its own
    ret             \* its result

vars == <<xlsx, all_cols, widgets, df, df_clean, category_sales, daily_sales,
          rating_counts, trend, tabs, log, arg, ret>>

appVars == <<xlsx, all_cols, widgets, df, df_clean, category_sales,
             daily_sales, rating_counts, trend, tabs, log>>

(***************************************************************************)
(* Bounds                                                                  *)
(***************************************************************************)
\* rows of the sheet in ejb.xlsx
MaxRows == 2
\* rows of the sheet in ejb.xlsx when it has three columns
MaxWideRows == 1
\* rows of a cleaned row set handed to an aggregator on its own
MaxCleanRows == 3
\* columns handed to default_index on its own
MaxCols == 3
\* ticks per calendar day (stands for 86,400 * 10^9 ns)
TicksPerDay == 2

(***************************************************************************)
(* Cells                                                                   *)
(***************************************************************************)
NA == [k |-> "na", v |-> 0, t |-> 0]

Num(n) == [k |-> "num", v |-> n, t |-> 0]

Text(s) == [k |-> "text", v |-> s, t |-> 0]

Ts(d, tod) == [k |-> "ts", v |-> d, t |-> tod]

\* pandas.isna
isna(c) == c.k = "na"

\* numpy's NaT seen as an int64 (stands for -2^63)
INaT == -1000000

\* cells a sheet may hold
Cells == {NA, Num(1), Text(1), Ts(1, 1)}

Column(frame, c) == [i \in 1..Len(frame) |-> frame[i][c]]

SetColumn(frame, c, col) == [i \in 1..Len(frame) |-> [frame[i] EXCEPT ![c] = col[i]]]

\* the dtype pandas gives a column: datetime64[ns] when it holds timestamps
\* and nothing but timestamps and missing values
is_datetime64(col) ==
    /\ \E i \in DOMAIN col : col[i].k = "ts"
    /\ \A i \in DOMAIN col : col[i].k \in {"ts", "na"}

\* pd.to_numeric(col, errors = "coerce") on a column of dtype datetime64
\* when datetime, of any other dtype otherwise: a datetime64 column is
\* viewed as int64 (NaT becomes iNaT), elsewhere a value that is no number
\* becomes missing
to_numeric_as(datetime, col) ==
    [i \in DOMAIN col |->
        IF datetime
        THEN IF col[i].k = "ts" THEN Num(col[i].v * TicksPerDay + col[i].t)
             ELSE Num(INaT)
        ELSE IF col[i].k = "num" THEN col[i] ELSE NA]

to_numeric(col) == to_numeric_as(is_datetime64(col), col)

\* pd.to_datetime(col, errors = "coerce"): a timestamp stays, a number is
\* the count of ticks since the epoch, iNaT and anything else become NaT
\* (as pandas 2.x does; pandas 1.x turned the numbers of a column that also
\* holds timestamps into NaT instead)
to_datetime(col) ==
    [i \in DOMAIN col |->
        CASE col[i].k = "ts" -> col[i]
          [] col[i].k = "num" /\ col[i].v # INaT ->
                Ts(col[i].v \div TicksPerDay, col[i].v % TicksPerDay)
          [] OTHER -> NA]

\* frame.dropna(subset = cols): the rows, in order, with no missing value
\* in any of the columns cols
dropna_rows(frame, cols) ==
    SelectSeq(frame, LAMBDA r : \A c \in cols : ~isna(r[c]))

\* series.dropna()
dropna(col) == SelectSeq(col, LAMBDA c : ~isna(c))

(***************************************************************************)
(* Column mapping (lines 35-64)                                            *)
(***************************************************************************)
\* cols.index(col_name), 0-based: the first position holding col_name
index_of(col_name, cols) ==
    (CHOOSE i \in 1..Len(cols) :
        /\ cols[i] = col_name
        /\ \A j \in 1..(i - 1) : cols[j] # col_name) - 1

\* a default_index that falls back to the last position, not the first
default_index_last(col_name, cols) ==
    IF \E i \in 1..Len(cols) : cols[i] = col_name
    THEN index_of(col_name, cols) ELSE Len(cols)

default_index(col_name, cols) ==
    IF \E i \in 1..Len(cols) : cols[i] = col_name
    THEN index_of(col_name, cols) ELSE 0

\* st.sidebar.selectbox(options = cols, index = i): the option at 0-based i;
\* None when there are no options, and an index outside the options raises
selectbox(cols, i) ==
    IF i + 1 \in 1..Len(cols) THEN cols[i + 1]
    ELSE IF cols = <<>> THEN "None" ELSE "StreamlitAPIException"

\* the four select boxes on their first rendering, as 1-based column numbers
default_widgets(cols) ==
    [category     |-> default_index("Category", cols) + 1,
     sales        |-> default_index("Sales", cols) + 1,
     date         |-> default_index("Date Ordered", cols) + 1,
     satisfaction |-> default_index("Service Satisfaction Rating", cols) + 1]

\* no select box has been rendered yet
NoWidgets == [category |-> 0, sales |-> 0, date |-> 0, satisfaction |-> 0]

Roles == {"category", "sales", "date", "satisfaction"}

(***************************************************************************)
(* Cleaning (lines 69-77)                                                  *)
(***************************************************************************)
\* df[sales_col] = pd.to_numeric(...); df[date_col] = pd.to_datetime(...):
\* the frame after both in-place assignments, in the script's order
coerce(frame, sales_col, date_col) ==
    LET df1 == SetColumn(frame, sales_col, to_numeric(Column(frame, sales_col)))
    IN  SetColumn(df1, date_col, to_datetime(Column(df1, date_col)))

\* a cleaner that forgets the date column in dropna's subset
clean_no_date(frame, category_col, sales_col, date_col) ==
    dropna_rows(frame, {category_col, sales_col})

\* df.dropna(subset = [category_col, sales_col, date_col])
clean(frame, category_col, sales_col, date_col) ==
    dropna_rows(frame, {category_col, sales_col, date_col})

(***************************************************************************)
(* Aggregation                                                             *)
(***************************************************************************)
\* the order groupby and sort_index put keys in
KeyRank(c) == CASE c.k = "num" -> 1 [] c.k = "ts" -> 2 [] c.k = "text" -> 3 [] OTHER -> 4

KeyLeq(a, b) ==
    \/ KeyRank(a) < KeyRank(b)
    \/ /\ KeyRank(a) = KeyRank(b)
       /\ \/ a.v < b.v
          \/ a.v = b.v /\ a.t <= b.t

RECURSIVE sorted_keys(_)
sorted_keys(S) ==
    IF S = {} THEN <<>>
    ELSE LET m == CHOOSE x \in S : \A y \in S : KeyLeq(x, y)
         IN  <<m>> \o sorted_keys(S \ {m})

\* .sum() of one group: the sales of the rows whose key is key
RECURSIVE group_sum(_, _, _, _)
group_sum(rows, keys, key, sales_col) ==
    IF rows = <<>> THEN 0
    ELSE (IF keys[1] = key THEN rows[1][sales_col].v ELSE 0)
         + group_sum(Tail(rows), Tail(keys), key, sales_col)

\* .count of one group
RECURSIVE group_count(_, _)
group_count(keys, key) ==
    IF keys = <<>> THEN 0
    ELSE (IF keys[1] = key THEN 1 ELSE 0) + group_count(Tail(keys), key)

\* an insertion that orders by ascending total
RECURSIVE insert_asc(_, _)
insert_asc(sorted, p) ==
    IF sorted = <<>> THEN <<p>>
    ELSE IF sorted[1][2] <= p[2] THEN <<sorted[1]>> \o insert_asc(Tail(sorted), p)
    ELSE <<p>> \o sorted

\* insertion of a <<key, total>> pair into a list ordered by descending total,
\* after the pairs of equal total
RECURSIVE insert_desc(_, _)
insert_desc(sorted, p) ==
    IF sorted = <<>> THEN <<p>>
    ELSE IF sorted[1][2] >= p[2] THEN <<sorted[1]>> \o insert_desc(Tail(sorted), p)
    ELSE <<p>> \o sorted

\* series.sort_values(ascending = False)
RECURSIVE sort_values_desc(_)
sort_values_desc(pairs) ==
    IF pairs = <<>> THEN <<>>
    ELSE insert_desc(sort_values_desc(SubSeq(pairs, 1, Len(pairs) - 1)), pairs[Len(pairs)])

\* df_clean.groupby(category_col)[sales_col].sum().sort_values(ascending=False)
categorySales(rows, category_col, sales_col) ==
    LET keycol == Column(rows, category_col)
        keys   == sorted_keys({keycol[i] : i \in DOMAIN keycol})
    IN  sort_values_desc([j \in 1..Len(keys) |->
            <<keys[j], group_sum(rows, keycol, keys[j], sales_col)>>])

\* a .dt.date that keeps the time of day
dt_date_keep_time(col) == [i \in DOMAIN col |-> col[i]]

\* series.dt.date: the calendar day of each timestamp, its time dropped
dt_date(col) == [i \in DOMAIN col |-> Ts(col[i].v, 0)]

\* time_df.groupby(time_df[date_col].dt.date)[sales_col].sum().sort_index()
dailySales(rows, date_col, sales_col) ==
    LET keycol == dt_date(Column(rows, date_col))
        keys   == sorted_keys({keycol[i] : i \in DOMAIN keycol})
    IN  [j \in 1..Len(keys) |->
            <<keys[j].v, group_sum(rows, keycol, keys[j], sales_col)>>]

\* sat_series.value_counts().sort_index() of a numeric series
value_counts(col) ==
    LET keys == sorted_keys({col[i] : i \in DOMAIN col})
    IN  [j \in 1..Len(keys) |-> <<keys[j].v, group_count(col, keys[j])>>]

\* pd.to_numeric(sat_series, errors="coerce").dropna().value_counts().sort_index()
\* of a satisfaction column: the column's dtype survives its dropna
ratingDistribution(col) ==
    value_counts(dropna(to_numeric_as(is_datetime64(col), dropna(col))))

(***************************************************************************)
(* The three tabs (lines 83-211).  Each returns what it rendered and what  *)
(* it computed.                                                            *)
(***************************************************************************)
\* tab 1 (lines 83-118).  sales_is_datetime: the sales column has dtype
\* datetime64, whose groupby sum raises TypeError
tab1(rows, category_col, sales_col, sales_is_datetime) ==
    IF sales_is_datetime
    THEN [status |-> "TypeError", category_sales |-> <<>>]
    ELSE LET cs == categorySales(rows, category_col, sales_col)
         IN  [status |-> IF cs # <<>> THEN "interpretation" ELSE "warning",
              category_sales |-> cs]

\* a comparison that takes the largest daily total for the last one
trend_of_max(daily) ==
    LET first_val == daily[1][2]
        last_val  == CHOOSE x \in {daily[i][2] : i \in DOMAIN daily} :
                        \A i \in DOMAIN daily : daily[i][2] <= x
    IN  IF last_val > first_val THEN "increased"
        ELSE IF last_val < first_val THEN "decreased"
        ELSE "stayed about the same"

\* lines 150-157: first against last daily total
trend_of(daily) ==
    LET first_val == daily[1][2]
        last_val  == daily[Len(daily)][2]
    IN  IF last_val > first_val THEN "increased"
        ELSE IF last_val < first_val THEN "decreased"
        ELSE "stayed about the same"

\* tab 2 (lines 121-174)
tab2(rows, date_col, sales_col) ==
    LET time_df == dropna_rows(rows, {date_col, sales_col})
    IN  IF time_df = <<>>
        THEN [status |-> "warning", daily_sales |-> <<>>, trend |-> "none"]
        ELSE LET daily == dailySales(time_df, date_col, sales_col)
             IN  IF Len(daily) > 1
                 THEN [status |-> "interpretation", daily_sales |-> daily,
                       trend |-> trend_of(daily)]
                 ELSE [status |-> "single_date", daily_sales |-> daily,
                       trend |-> "none"]

\* tab 3 (lines 177-211): idxmax of an empty rating_counts raises ValueError
tab3(frame, satisfaction_col) ==
    LET col == Column(frame, satisfaction_col)
    IN  IF dropna(col) = <<>>
        THEN [status |-> "warning", rating_counts |-> <<>>]
        ELSE LET rc == ratingDistribution(col)
             IN  [status |-> IF rc = <<>> THEN "ValueError" ELSE "interpretation",
                  rating_counts |-> rc]

(***************************************************************************)
(* One run of the script                                                   *)
(***************************************************************************)
NoTabs == [tab1 |-> "not_rendered", tab2 |-> "not_rendered", tab3 |-> "not_rendered"]

\* lines 69-211 on the frame just loaded, with the select boxes at b
pipeline(frame, b, steps) ==
    LET d2 == coerce(frame, b.sales, b.date)
        dc == clean(d2, b.category, b.sales, b.date)
        t1 == tab1(dc, b.category, b.sales, b.sales = b.date)
        t2 == tab2(dc, b.date, b.sales)
        t3 == tab3(d2, b.satisfaction)
        raised == t1.status = "TypeError"
    IN  [df |-> d2, df_clean |-> dc,
         category_sales |-> t1.category_sales,
         daily_sales |-> IF raised THEN <<>> ELSE t2.daily_sales,
         rating_counts |-> IF raised THEN <<>> ELSE t3.rating_counts,
         trend |-> IF raised THEN "none" ELSE t2.trend,
         tabs |-> IF raised
                  THEN [tab1 |-> t1.status, tab2 |-> "not_rendered",
                        tab3 |-> "not_rendered"]
                  ELSE [tab1 |-> t1.status, tab2 |-> t2.status, tab3 |-> t3.status],
         log |-> steps \o <<"preview", "mapping", "clean", "tab1">>
                 \o (IF raised THEN <<"exception">>
                     ELSE <<"tab2", "tab3">>
                          \o (IF t3.status = "ValueError" THEN <<"exception">>
                              ELSE <<"done">>))]

\* a handler that reports the missing file and goes on without st.stop()
on_FileNotFoundError_no_stop(b) ==
    pipeline(<<>>, b, <<"load", "error">>)

\* lines 22-27: st.error(...), st.stop(); nothing of the page is computed
on_FileNotFoundError(b) ==
    [df |-> <<>>, df_clean |-> <<>>, category_sales |-> <<>>, daily_sales |-> <<>>,
     rating_counts |-> <<>>, trend |-> "none", tabs |-> NoTabs,
     log |-> <<"load", "error", "stop">>]

\* a loader that keeps the frame of the previous run (a cached, shared frame)
read_excel_cached == IF df # <<>> THEN df ELSE xlsx

\* line 21: pd.read_excel("ejb.xlsx"), a fresh frame on every run
read_excel == xlsx

\* the whole script: found says whether ejb.xlsx is there, b holds the
\* select boxes' values
app(found, b) ==
    IF found THEN pipeline(read_excel, b, <<"load">>) ELSE on_FileNotFoundError(b)

\* the run's results become the page shown
Show(r) ==
    /\ df' = r.df
    /\ df_clean' = r.df_clean
    /\ category_sales' = r.category_sales
    /\ daily_sales' = r.daily_sales
    /\ rating_counts' = r.rating_counts
    /\ trend' = r.trend
    /\ tabs' = r.tabs
    /\ log' = r.log

\* the select boxes as this run renders them: a box keeps its value, and a
\* box rendered for the first time takes its default
rendered(w) == IF w = NoWidgets THEN default_widgets(all_cols) ELSE w

\* The script runs (launch, refresh).  A run that stops before the sidebar
\* renders no select box, and the session forgets their values.
ScriptRun ==
    \E found \in BOOLEAN :
        /\ widgets' = IF found THEN rendered(widgets) ELSE NoWidgets
        /\ Show(app(found, rendered(widgets)))
        /\ UNCHANGED <<xlsx, all_cols, arg, ret>>

\* The user picks column c in the select box of a role; the script reruns.
SelectColumn ==
    \E role \in Roles, c \in 1..Len(all_cols), found \in BOOLEAN :
        /\ widgets # NoWidgets
        /\ widgets[role] # c
        /\ LET b == [widgets EXCEPT ![role] = c]
           IN  /\ widgets' = IF found THEN b ELSE NoWidgets
               /\ Show(app(found, b))
        /\ UNCHANGED <<xlsx, all_cols, arg, ret>>

\* the sheets of ncols columns and at most nrows rows ejb.xlsx may hold
Sheets(ncols, nrows) == UNION {[1..n -> [1..ncols -> Cells]] : n \in 0..nrows}

\* the page before the first run
Blank ==
    /\ widgets = NoWidgets
    /\ df = <<>>
    /\ df_clean = <<>>
    /\ category_sales = <<>>
    /\ daily_sales = <<>>
    /\ rating_counts = <<>>
    /\ trend = "none"
    /\ tabs = NoTabs
    /\ log = <<>>

\* no function has been applied on its own
Unapplied == [status |-> "unapplied"]

\* a sheet of two columns, with no date and no rating column of the
\* preferred names
Init ==
    /\ all_cols = <<"Category", "Sales">>
    /\ xlsx \in Sheets(Len(all_cols), MaxRows)
    /\ Blank
    /\ arg = <<>>
    /\ ret = Unapplied

\* a sheet of three columns, with no rating column of the preferred name
InitWide ==
    /\ all_cols = <<"Category", "Sales", "Date Ordered">>
    /\ xlsx \in Sheets(Len(all_cols), MaxWideRows)
    /\ Blank
    /\ arg = <<>>
    /\ ret = Unapplied

Next == ScriptRun \/ SelectColumn

Spec == Init /\ [][Next]_vars

SpecWide == InitWide /\ [][Next]_vars

(***************************************************************************)
(* default_index applied on its own                                        *)
(***************************************************************************)
ColumnNames == {"Category", "Sales", "Date Ordered", "Service Satisfaction Rating", "Type"}

PreferredNames == {"Category", "Sales", "Date Ordered", "Service Satisfaction Rating"}

\* headers of at most MaxCols columns, the names unique
ColumnLists ==
    UNION {{c \in [1..n -> ColumnNames] : \A i, j \in 1..n : i # j => c[i] # c[j]}
           : n \in 0..MaxCols}

InitMapper ==
    /\ arg \in [col_name : PreferredNames, cols : ColumnLists]
    /\ ret = Unapplied
    /\ xlsx = <<>>
    /\ all_cols = arg.cols
    /\ Blank

ApplyDefaultIndex ==
    /\ ret = Unapplied
    /\ ret' = [status |-> "applied", index |-> default_index(arg.col_name, arg.cols)]
    /\ UNCHANGED <<arg, appVars>>

SpecMapper == InitMapper /\ [][ApplyDefaultIndex]_vars

(***************************************************************************)
(* The aggregators applied on their own to a cleaned row set whose columns *)
(* are 1: category, 2: sales, 3: date                                      *)
(***************************************************************************)
Categories == {Text(1), Text(2)}

SalesValues == {Num(1), Num(2), Num(3)}

SalesDates == {Ts(1, 0), Ts(1, 1), Ts(2, 0), Ts(3, 0)}

CleanRowSets(rowTypes) == UNION {[1..n -> rowTypes] : n \in 0..MaxCleanRows}

InitCategory ==
    /\ arg \in CleanRowSets({<<c, s, Ts(1, 0)>> : c \in Categories, s \in SalesValues})
    /\ ret = Unapplied
    /\ xlsx = <<>>
    /\ all_cols = <<"Category", "Sales", "Date Ordered">>
    /\ Blank

ApplyTab1 ==
    /\ ret = Unapplied
    /\ ret' = tab1(arg, 1, 2, FALSE)
    /\ UNCHANGED <<arg, appVars>>

SpecCategory == InitCategory /\ [][ApplyTab1]_vars

InitDaily ==
    /\ arg \in CleanRowSets({<<Text(1), s, d>> : s \in {Num(1), Num(2)}, d \in SalesDates})
    /\ ret = Unapplied
    /\ xlsx = <<>>
    /\ all_cols = <<"Category", "Sales", "Date Ordered">>
    /\ Blank

ApplyTab2 ==
    /\ ret = Unapplied
    /\ ret' = tab2(arg, 3, 2)
    /\ UNCHANGED <<arg, appVars>>

SpecDaily == InitDaily /\ [][ApplyTab2]_vars

(***************************************************************************)
(* Properties                                                              *)
(***************************************************************************)
\* the steps the last run executed
Steps == {log[i] : i \in DOMAIN log}

\* the rows of frame at the positions S, in order
RowsAt(frame, S) ==
    LET F[n \in 0..Len(frame)] ==
            IF n = 0 THEN <<>>
            ELSE IF n \in S THEN Append(F[n - 1], frame[n]) ELSE F[n - 1]
    IN  F[Len(frame)]

\* the sum of column sales_col over the rows at the positions S
RECURSIVE SalesOver(_, _, _)
SalesOver(rows, S, sales_col) ==
    IF S = {} THEN 0
    ELSE LET i == CHOOSE x \in S : TRUE
         IN  rows[i][sales_col].v + SalesOver(rows, S \ {i}, sales_col)

\* the sum of the second components of a list of pairs
RECURSIVE TotalOf(_)
TotalOf(pairs) == IF pairs = <<>> THEN 0 ELSE pairs[1][2] + TotalOf(Tail(pairs))

\* positions of the sheet's rows whose category, sales and date values are
\* all present after coercion: the sales value as a number and the date value
\* as a timestamp, each coercion taken on the sheet as loaded, and the
\* category value as the coerced frame holds it
KeptRows ==
    {i \in 1..Len(xlsx) :
        /\ ~isna(df[i][widgets.category])
        /\ ~isna(to_numeric(Column(xlsx, widgets.sales))[i])
        /\ ~isna(to_datetime(Column(xlsx, widgets.date))[i])}

\* C1: after cleaning, a row of the sheet is in df_clean iff its category,
\* sales and date values are all non-missing after coercion: df_clean holds
\* exactly the rows at KeptRows, in order, and none of its rows misses a
\* category, a sales or a date value.
C1_CleanerRowFilter ==
    "clean" \in Steps =>
        /\ df_clean = RowsAt(df, KeptRows)
        /\ \A i \in DOMAIN df_clean :
              /\ ~isna(df_clean[i][widgets.category])
              /\ ~isna(df_clean[i][widgets.sales])
              /\ ~isna(df_clean[i][widgets.date])

\* a run that cleaned a sheet of two rows, kept one and dropped the other
C1_Witness ==
    /\ "clean" \in Steps
    /\ Len(xlsx) = 2
    /\ Len(df_clean) = 1
    /\ \E i \in 1..2 : \A c \in {widgets.category, widgets.sales, widgets.date} :
          ~isna(xlsx[i][c])

\* C2: the category summary has exactly one entry per category of the
\* cleaned rows, each total is the sum of sales of the rows of that category,
\* totals do not increase along the summary, and they add up to the sum of
\* sales over all cleaned rows.
C2_CategorySales ==
    ret.status # "unapplied" =>
        LET cs == ret.category_sales
        IN  /\ {cs[j][1] : j \in DOMAIN cs} = {arg[i][1] : i \in DOMAIN arg}
            /\ Len(cs) = Cardinality({arg[i][1] : i \in DOMAIN arg})
            /\ \A j \in DOMAIN cs :
                  cs[j][2] = SalesOver(arg, {i \in DOMAIN arg : arg[i][1] = cs[j][1]}, 2)
            /\ \A j \in 1..(Len(cs) - 1) : cs[j][2] >= cs[j + 1][2]
            /\ TotalOf(cs) = SalesOver(arg, DOMAIN arg, 2)

\* two categories, one of them on two rows, whose totals differ
C2_Witness ==
    /\ ret.status = "interpretation"
    /\ Len(arg) = 3
    /\ Len(ret.category_sales) = 2
    /\ ret.category_sales[1][2] > ret.category_sales[2][2]
    /\ arg[1][1] # arg[3][1]

\* C3: the daily summary has exactly one entry per calendar day of the
\* cleaned rows (times of day dropped), in strictly ascending day order, each
\* total is the sum of sales of that day's rows, and the totals add up to the
\* sum of sales over all cleaned rows.
C3_DailySales ==
    ret.status # "unapplied" =>
        LET ds == ret.daily_sales
        IN  /\ {ds[j][1] : j \in DOMAIN ds} = {arg[i][3].v : i \in DOMAIN arg}
            /\ \A j \in 1..(Len(ds) - 1) : ds[j][1] < ds[j + 1][1]
            /\ \A j \in DOMAIN ds :
                  ds[j][2] = SalesOver(arg, {i \in DOMAIN arg : arg[i][3].v = ds[j][1]}, 2)
            /\ TotalOf(ds) = SalesOver(arg, DOMAIN arg, 2)

\* two rows of one day at different times, and a row of a later day given first
C3_Witness ==
    /\ ret.status = "interpretation"
    /\ Len(arg) = 3
    /\ arg[1][3].v > arg[2][3].v
    /\ arg[2][3].v = arg[3][3].v
    /\ arg[2][3].t # arg[3][3].t
    /\ Len(ret.daily_sales) = 2

\* the rating distribution of a raw column: its numbers, each with the
\* number of cells holding it
NumericCells(col) == {i \in DOMAIN col : col[i].k = "num"}

\* C4: the rating distribution maps each number of the satisfaction column
\* of the sheet to the number of rows holding it, in ascending order, and its
\* counts add up to the number of numeric cells of that column.
C4_RatingDistribution ==
    tabs.tab3 # "not_rendered" =>
        LET col  == Column(xlsx, widgets.satisfaction)
            nums == NumericCells(col)
        IN  /\ {rating_counts[j][1] : j \in DOMAIN rating_counts}
                  = {col[i].v : i \in nums}
            /\ \A j \in DOMAIN rating_counts :
                  rating_counts[j][2]
                      = Cardinality({i \in nums : col[i].v = rating_counts[j][1]})
            /\ \A j \in 1..(Len(rating_counts) - 1) :
                  rating_counts[j][1] < rating_counts[j + 1][1]
            /\ TotalOf(rating_counts) = Cardinality(nums)

\* C5: a run whose cleaned row set or rating distribution is empty raises
\* nothing and shows the "no data" warning in the views concerned.  Stated
\* for the runs whose sales and date roles are bound to different columns.
C5_EmptyResultsNeverFail ==
    ("tab1" \in Steps /\ widgets.sales # widgets.date) =>
        /\ (df_clean = <<>> \/ rating_counts = <<>>) => "exception" \notin Steps
        /\ df_clean = <<>> => tabs.tab1 = "warning" /\ tabs.tab2 = "warning"
        /\ rating_counts = <<>> => tabs.tab3 = "warning"

\* C6: default_index gives the position of the preferred name when the
\* header holds it and the first position otherwise, so for a non-empty
\* header the select box shows a column of the header.
C6_DefaultBinding ==
    ret.status = "applied" =>
        LET cols == arg.cols
            has  == \E i \in DOMAIN cols : cols[i] = arg.col_name
        IN  /\ has => selectbox(cols, ret.index) = arg.col_name
            /\ (~has /\ cols # <<>>) => selectbox(cols, ret.index) = cols[1]
            /\ cols # <<>> =>
                  /\ ret.index + 1 \in DOMAIN cols
                  /\ \E i \in DOMAIN cols : selectbox(cols, ret.index) = cols[i]

\* the preferred name found at a later position
C6_Witness ==
    /\ ret.status = "applied"
    /\ Len(arg.cols) = 3
    /\ arg.cols[3] = arg.col_name
    /\ ret.index = 2

\* the steps that follow a successful load
PageSteps == {"preview", "mapping", "clean", "tab1", "tab2", "tab3", "done"}

\* C7: a run whose load fails reports the error and stops: it loads once,
\* executes no later step and computes nothing; a run that executes a later
\* step loaded the sheet first and reported no error.
C7_SourceNotFoundTerminal ==
    /\ "error" \in Steps =>
          /\ log = <<"load", "error", "stop">>
          /\ df = <<>> /\ df_clean = <<>> /\ category_sales = <<>>
          /\ daily_sales = <<>> /\ rating_counts = <<>>
          /\ tabs = NoTabs
    /\ Steps \cap PageSteps # {} => log[1] = "load" /\ "error" \notin Steps
    /\ Cardinality({i \in DOMAIN log : log[i] = "load"}) <= 1

\* a failed load that follows a run which had rendered the page
C7_Witness ==
    /\ log = <<"load", "error", "stop">>
    /\ widgets = NoWidgets
    /\ xlsx # <<>>

\* C8: the rating distribution shown is the one computed from the
\* satisfaction column of the sheet as loaded, whatever columns the
\* category, sales and date roles are bound to.
C8_RatingIndependentOfBindings ==
    tabs.tab3 # "not_rendered" =>
        rating_counts = ratingDistribution(Column(xlsx, widgets.satisfaction))

DaysOf(rows) == {rows[i][3].v : i \in DOMAIN rows}

\* the sales total of a day
DayTotal(rows, d) == SalesOver(rows, {i \in DOMAIN rows : rows[i][3].v = d}, 2)

\* C10: with two or more days the trend compares the last day's total with
\* the first day's: increased iff greater, decreased iff smaller, unchanged
\* iff equal; with one day the single-date message is shown and no trend;
\* with none the warning is shown and neither.
C10_TrendClassification ==
    ret.status # "unapplied" =>
        LET days == DaysOf(arg)
            lo   == CHOOSE d \in days : \A e \in days : d <= e
            hi   == CHOOSE d \in days : \A e \in days : e <= d
        IN  /\ Cardinality(days) >= 2 =>
                  /\ ret.status = "interpretation"
                  /\ ret.trend = "increased" <=> DayTotal(arg, hi) > DayTotal(arg, lo)
                  /\ ret.trend = "decreased" <=> DayTotal(arg, hi) < DayTotal(arg, lo)
                  /\ ret.trend = "stayed about the same"
                        <=> DayTotal(arg, hi) = DayTotal(arg, lo)
            /\ Cardinality(days) = 1 =>
                  ret.status = "single_date" /\ ret.trend = "none"
            /\ Cardinality(days) = 0 =>
                  ret.status = "warning" /\ ret.trend = "none"

\* three days whose middle total is the largest and whose ends are equal
C10_Witness ==
    /\ ret.status = "interpretation"
    /\ Len(ret.daily_sales) = 3
    /\ ret.daily_sales[2][2] > ret.daily_sales[3][2]
    /\ ret.trend = "stayed about the same"

====
